---------------------------- MODULE Spec2Model ----------------------------
(***************************************************************************)
(* Model of backend/app/services/ai_service.py: the AIService facade over  *)
(* the generative-text backend, its JSON extraction, field validation and  *)
(* fallback results.                                                       *)
(*                                                                         *)
(* Text is a sequence of tokens.  A token is one character of punctuation  *)
(* or whitespace, a maximal run of word characters (what the regex \w      *)
(* matches), a number literal holding a non-word character, or a JSON      *)
(* string literal.  JSON values are tagged records.                        *)
(***************************************************************************)
EXTENDS Integers, Sequences, FiniteSets, TLC

\* The one element of a singleton set.  The({e : x \in {v}}) is e with x
\* standing for the value v: a local name whose value is computed once.
The(A) == CHOOSE x \in A : TRUE

-----------------------------------------------------------------------------
(* Tokens *)

\* one character: punctuation, whitespace or a backtick
P(ch) == [c |-> "p", s |-> ch, n |-> 1]
\* a maximal run of word characters: a language tag, a bare word, digits
W(word) == [c |-> "w", s |-> word, n |-> Len(word)]
\* a number literal that holds a character \w does not match ("0.7", "-2")
N(lit) == [c |-> "n", s |-> lit, n |-> Len(lit)]
\* a JSON string literal with content s, n characters long
S(content, len) == [c |-> "s", s |-> content, n |-> len]
\* what is left of a number literal once the regex \w* has eaten its head
X(rest) == [c |-> "x", s |-> rest, n |-> Len(rest)]

\* a backtick (the character is written out: the lexer reserves it)
BT == P("backtick")
NL == P("\n")
SP == P(" ")
LB == P("{")
RB == P("}")
LK == P("[")
RK == P("]")
COMMA == P(",")
COLON == P(":")

IsWs(tok) == tok = SP \/ tok = NL

-----------------------------------------------------------------------------
(* Python values, as json.loads produces them *)

JNull == [t |-> "null"]
JBool(b) == [t |-> "bool", b |-> b]
\* a finite number, in thousandths (1 is 1000, 0.7 is 700); int and float
\* compare equal in Python when their values do
JNum(milli) == [t |-> "num", m |-> milli]
JNaN == [t |-> "nan"]
JInf == [t |-> "inf"]
JNegInf == [t |-> "ninf"]
\* the first len characters of the text named s
JStr(content, len) == [t |-> "str", s |-> content, len |-> len]
JList(items) == [t |-> "list", items |-> items]
\* a dict in insertion order: keys[i] maps to vals[i]
JDict(keys, vals) == [t |-> "dict", keys |-> keys, vals |-> vals]
EmptyDict == JDict(<<>>, <<>>)

Str(content) == JStr(content, Len(content))

IsDict(v) == v.t = "dict"

\* dict[key] = val: an existing key keeps its place and takes the new value
DictSet(d, key, val) ==
    IF \E i \in 1..Len(d.keys) : d.keys[i] = key
    THEN JDict(d.keys, [i \in 1..Len(d.keys) |->
                          IF d.keys[i] = key THEN val ELSE d.vals[i]])
    ELSE JDict(Append(d.keys, key), Append(d.vals, val))

HasKey(d, key) == \E i \in 1..Len(d.keys) : d.keys[i] = key

\* dict.get(key, default), keys being strings
DictGet(d, key, default) ==
    IF HasKey(d, key)
    THEN d.vals[CHOOSE i \in 1..Len(d.keys) : d.keys[i] = key]
    ELSE default

-----------------------------------------------------------------------------
(* json.loads *)

\* the literals json.loads reads from a run of word characters
WordLiteral(word) ==
    CASE word = "null" -> JNull
      [] word = "true" -> JBool(TRUE)
      [] word = "false" -> JBool(FALSE)
      [] word = "NaN" -> JNaN
      [] word = "Infinity" -> JInf
      [] word = "0" -> JNum(0)
      [] word = "1" -> JNum(1000)
      [] word = "2" -> JNum(2000)
      [] word = "3" -> JNum(3000)
      [] word = "4" -> JNum(4000)
      [] word = "5" -> JNum(5000)
      [] word = "6" -> JNum(6000)
      [] word = "7" -> JNum(7000)
      [] word = "8" -> JNum(8000)
      [] word = "9" -> JNum(9000)
      [] OTHER -> [t |-> "invalid"]

NumLiteral(lit) ==
    CASE lit = "0.7" -> JNum(700)
      [] lit = "0.5" -> JNum(500)
      [] lit = "1.5" -> JNum(1500)
      [] lit = "-2" -> JNum(0 - 2000)
      [] lit = "-Infinity" -> JNegInf
      [] OTHER -> [t |-> "invalid"]

ParseFail == [ok |-> FALSE, v |-> JNull, i |-> 0]
ParseOk(val, next) == [ok |-> TRUE, v |-> val, i |-> next]

RECURSIVE SkipWs(_, _)
SkipWs(toks, i) ==
    IF i <= Len(toks) /\ IsWs(toks[i]) THEN SkipWs(toks, i + 1) ELSE i

TokAt(toks, i) == IF i <= Len(toks) THEN toks[i] ELSE P("")

RECURSIVE ParseValue(_, _)
RECURSIVE ParseMembers(_, _, _)
RECURSIVE ParseElems(_, _, _)

\* after the opening brace or a comma: a string key, a colon, a value, then
\* a comma and another member, or the closing brace
ParseMembers(toks, i, acc) ==
    IF TokAt(toks, i).c # "s" \/ TokAt(toks, SkipWs(toks, i + 1)) # COLON
    THEN ParseFail
    ELSE The({
           IF ~r.ok THEN ParseFail
           ELSE The({
                  CASE TokAt(toks, e) = RB ->
                         ParseOk(DictSet(acc, toks[i].s, r.v), e + 1)
                    [] TokAt(toks, e) = COMMA ->
                         ParseMembers(toks, SkipWs(toks, e + 1),
                                      DictSet(acc, toks[i].s, r.v))
                    [] OTHER -> ParseFail
                  : e \in {SkipWs(toks, r.i)} })
           : r \in {ParseValue(toks, SkipWs(toks, SkipWs(toks, i + 1) + 1))} })

\* after the opening bracket or a comma: a value, then a comma and another
\* value, or the closing bracket
ParseElems(toks, i, acc) ==
    The({
      IF ~r.ok THEN ParseFail
      ELSE The({
             CASE TokAt(toks, e) = RK -> ParseOk(JList(Append(acc, r.v)), e + 1)
               [] TokAt(toks, e) = COMMA ->
                    ParseElems(toks, SkipWs(toks, e + 1), Append(acc, r.v))
               [] OTHER -> ParseFail
             : e \in {SkipWs(toks, r.i)} })
      : r \in {ParseValue(toks, i)} })

ParseValue(toks, i) ==
    The({
      CASE tok = LB ->
             IF TokAt(toks, SkipWs(toks, i + 1)) = RB
             THEN ParseOk(EmptyDict, SkipWs(toks, i + 1) + 1)
             ELSE ParseMembers(toks, SkipWs(toks, i + 1), EmptyDict)
        [] tok = LK ->
             IF TokAt(toks, SkipWs(toks, i + 1)) = RK
             THEN ParseOk(JList(<<>>), SkipWs(toks, i + 1) + 1)
             ELSE ParseElems(toks, SkipWs(toks, i + 1), <<>>)
        [] tok.c = "s" -> ParseOk(JStr(tok.s, tok.n), i + 1)
        [] tok.c = "w" /\ WordLiteral(tok.s).t # "invalid" ->
             ParseOk(WordLiteral(tok.s), i + 1)
        [] tok.c = "n" /\ NumLiteral(tok.s).t # "invalid" ->
             ParseOk(NumLiteral(tok.s), i + 1)
        [] OTHER -> ParseFail
      : tok \in {TokAt(toks, i)} })

\* json.loads(text): the decoded value, or JSONDecodeError
json_loads(toks) ==
    The({ IF r.ok /\ SkipWs(toks, r.i) = Len(toks) + 1
          THEN [ok |-> TRUE, v |-> r.v]
          ELSE [ok |-> FALSE, v |-> JNull]
          : r \in {ParseValue(toks, SkipWs(toks, 1))} })

-----------------------------------------------------------------------------
(* AIService._extract_json *)

RECURSIVE LStrip(_)
LStrip(toks) ==
    IF toks # <<>> /\ IsWs(Head(toks)) THEN LStrip(Tail(toks)) ELSE toks

RECURSIVE RStrip(_)
RStrip(toks) ==
    IF toks # <<>> /\ IsWs(toks[Len(toks)])
    THEN RStrip(SubSeq(toks, 1, Len(toks) - 1))
    ELSE toks

\* str.strip()
strip(toks) == RStrip(LStrip(toks))

\* text.startswith of three backticks
startswith_fence(toks) ==
    Len(toks) >= 3 /\ toks[1] = BT /\ toks[2] = BT /\ toks[3] = BT

\* number literals whose first character is a word character, and what is
\* left of each once the word characters at its head are gone
WordHeaded == {"0.7", "0.5", "1.5"}
AfterWordHead(lit) ==
    CASE lit = "0.7" -> ".7"
      [] lit = "0.5" -> ".5"
      [] lit = "1.5" -> ".5"

\* \w* at the head of toks: every word run goes, and so does the head of a
\* number literal, whose rest stays
RECURSIVE EatWord(_)
EatWord(toks) ==
    IF toks = <<>> THEN toks
    ELSE LET h == Head(toks) IN
         CASE h.c = "w" -> EatWord(Tail(toks))
           [] h.c = "n" /\ h.s \in WordHeaded ->
                <<X(AfterWordHead(h.s))>> \o Tail(toks)
           [] OTHER -> toks

\* \n? at the head of toks
EatNewline(toks) ==
    IF toks # <<>> /\ Head(toks) = NL THEN Tail(toks) ELSE toks

\* a fence regex that forgets the language tag: ^``` and the newline only
StripLeadingFenceNoTag(toks) == EatNewline(SubSeq(toks, 4, Len(toks)))

\* re.sub(r'^```\w*\n?', '', text), text starting with the fence
StripLeadingFence(toks) == EatNewline(EatWord(SubSeq(toks, 4, Len(toks))))

\* re.sub(r'\n?```$', '', text): text never ends in a newline here, so $
\* is the end of the text
StripTrailingFence(toks) ==
    LET n == Len(toks) IN
    IF n >= 3 /\ toks[n] = BT /\ toks[n - 1] = BT /\ toks[n - 2] = BT
    THEN IF n >= 4 /\ toks[n - 3] = NL
         THEN SubSeq(toks, 1, n - 4)
         ELSE SubSeq(toks, 1, n - 3)
    ELSE toks

\* the fence handling of _extract_json
CleanFences(toks) ==
    IF startswith_fence(toks)
    THEN StripTrailingFence(StripLeadingFence(toks))
    ELSE toks

IsBrace(tok) == tok = LB \/ tok = RB

\* positions i..j of a match of \{[^{}]*\}: an opening brace, no brace
\* between, a closing brace
FlatMatches(toks) ==
    {m \in (1..Len(toks)) \X (1..Len(toks)) :
        /\ m[1] < m[2]
        /\ toks[m[1]] = LB
        /\ toks[m[2]] = RB
        /\ \A k \in (m[1] + 1)..(m[2] - 1) : ~IsBrace(toks[k])}

\* re.search(r'\{[^{}]*\}', text, re.DOTALL): the leftmost match, or none
re_search_flat(toks) ==
    The({ IF ms = {} THEN [found |-> FALSE, group |-> <<>>]
          ELSE The({ [found |-> TRUE, group |-> SubSeq(toks, m[1], m[2])]
                     : m \in {CHOOSE m \in ms : \A o \in ms : m[1] <= o[1]} })
          : ms \in {FlatMatches(toks)} })

\* what is decoded from the first flat brace-delimited substring of the
\* cleaned text, or {}: the except branch of _extract_json
ExtractFromMatch(cleaned) ==
    The({ IF ~match.found THEN EmptyDict
          ELSE The({ IF part.ok THEN part.v ELSE EmptyDict
                     : part \in {json_loads(match.group)} })
          : match \in {re_search_flat(cleaned)} })

\* _extract_json(text): whatever json.loads decodes from the cleaned text;
\* failing that, the first flat brace-delimited substring decoded; failing
\* that, {}
_extract_json(text) ==
    The({ The({ IF whole.ok THEN whole.v ELSE ExtractFromMatch(cleaned)
                : whole \in {json_loads(cleaned)} })
          : cleaned \in {CleanFences(strip(text))} })

-----------------------------------------------------------------------------
(* Python operations the service applies to decoded values *)

\* a raised exception, str(e) being msg
Exc(msg) == [t |-> "exc", msg |-> msg]
IsExc(v) == v.t = "exc"

Min2(a, b) == IF a <= b THEN a ELSE b

\* type(v).__name__: a finite number is an int when it is whole, the
\* decoder's floats of the model being the fractions
PyTypeName(v) ==
    CASE v.t = "null" -> "NoneType"
      [] v.t = "num" -> IF v.m % 1000 = 0 THEN "int" ELSE "float"
      [] v.t \in {"nan", "inf", "ninf"} -> "float"
      [] OTHER -> v.t

\* the AttributeError of v.get on a value that is no dict
NoGet(v) == Exc("'" \o PyTypeName(v) \o "' object has no attribute 'get'")

\* value[:k]: a prefix of a str or of a list; any other value has no slices
PySlice(v, k) ==
    CASE v.t = "str" -> JStr(v.s, Min2(v.len, k))
      [] v.t = "list" -> JList(SubSeq(v.items, 1, Min2(Len(v.items), k)))
      [] OTHER -> Exc("object is not subscriptable")

\* float("..."): the numerals among the strings of the model
FloatOfStr(content) ==
    CASE content = "0.9" -> JNum(900)
      [] content = "7" -> JNum(7000)
      [] content = "nan" -> JNaN
      [] OTHER -> Exc("could not convert string to float")

\* float(v)
PyFloat(v) ==
    CASE v.t \in {"num", "nan", "inf", "ninf"} -> v
      [] v.t = "bool" -> IF v.b THEN JNum(1000) ELSE JNum(0)
      [] v.t = "str" ->
           IF v.len = Len(v.s) THEN FloatOfStr(v.s)
           ELSE Exc("could not convert string to float")
      [] OTHER -> Exc("float() argument must be a string or a real number")

\* a < b on floats: every comparison with NaN is false
PyLess(a, b) ==
    CASE a.t = "nan" \/ b.t = "nan" -> FALSE
      [] a.t = "ninf" -> b.t # "ninf"
      [] b.t = "inf" -> a.t # "inf"
      [] a.t = "inf" \/ b.t = "ninf" -> FALSE
      [] OTHER -> a.m < b.m

\* max(a, b) and min(a, b): the first argument unless the second beats it
PyMax(a, b) == IF PyLess(a, b) THEN b ELSE a
PyMin(a, b) == IF PyLess(b, a) THEN b ELSE a

-----------------------------------------------------------------------------
(* AIService._validate_parsed_task and AIService._fallback_parse *)

TitleMax == 255
FallbackTitleMax == 100

\* [p.value for p in Priority], [c.value for c in Category]
valid_priorities == {Str("low"), Str("medium"), Str("high"), Str("urgent")}
valid_categories ==
    {Str("work"), Str("personal"), Str("health"), Str("finance"),
     Str("learning"), Str("errands"), Str("other")}

DraftKeys ==
    <<"title", "description", "priority", "category", "due_date", "confidence">>

\* a clamp that forgives: a confidence float() rejects becomes the default
ClampConfidenceLenient(v) ==
    The({ IF IsExc(f) THEN JNum(500) ELSE PyMin(PyMax(f, JNum(0)), JNum(1000))
          : f \in {PyFloat(v)} })

\* min(max(float(confidence), 0), 1)
ClampConfidence(v) ==
    The({ IF IsExc(f) THEN f ELSE PyMin(PyMax(f, JNum(0)), JNum(1000))
          : f \in {PyFloat(v)} })

\* the dict display of _validate_parsed_task; data.get raises on anything
\* that is not a dict, the title slice and float() raise on values they do
\* not take
_validate_parsed_task(data) ==
    IF ~IsDict(data) THEN NoGet(data)
    ELSE The({
           IF IsExc(title) THEN title
           ELSE The({
                  IF IsExc(confidence) THEN confidence
                  ELSE JDict(DraftKeys,
                             << title,
                                DictGet(data, "description", JNull),
                                IF DictGet(data, "priority", JNull) \in valid_priorities
                                  THEN DictGet(data, "priority", Str("medium"))
                                  ELSE Str("medium"),
                                IF DictGet(data, "category", JNull) \in valid_categories
                                  THEN DictGet(data, "category", Str("other"))
                                  ELSE Str("other"),
                                DictGet(data, "due_date", JNull),
                                confidence >>)
                  : confidence \in
                      {ClampConfidence(DictGet(data, "confidence", JNum(500)))} })
           : title \in {PySlice(DictGet(data, "title", Str("New Task")), TitleMax)} })

_fallback_parse(text) ==
    JDict(DraftKeys,
          << PySlice(text, FallbackTitleMax), JNull, Str("medium"),
             Str("other"), JNull, JNum(500) >>)

-----------------------------------------------------------------------------
(* What the backend does when generate_content is called *)

\* the call, or reading response.text, raises an exception whose str is msg
Raises(msg) == [kind |-> "raise", msg |-> msg, text |-> <<>>]
\* the call returns a response whose text is toks
Returns(toks) == [kind |-> "text", msg |-> "", text |-> toks]
\* no call has been made
NoCall == [kind |-> "none", msg |-> "", text |-> <<>>]

-----------------------------------------------------------------------------
(* AIService: construction and the four operations *)

\* self.model after __init__: the handle when a key is configured and
\* neither genai.configure nor genai.GenerativeModel raised, else None
_initialize(gemini_api_key, init_raises) ==
    IF gemini_api_key # "" /\ ~init_raises THEN "GenerativeModel" ELSE "None"

is_available(m) == m # "None"

\* an operation's outcome: the value returned to the caller, or the
\* exception that leaves the operation
Returned(val) == [status |-> "returned", v |-> val]
Escaped(exc) == [status |-> "raised", v |-> exc]

\* the try block of parse_natural_language: the call, response.text,
\* extraction and validation; the draft, or the exception raised
ParseTry(resp) ==
    IF resp.kind = "raise" THEN Exc(resp.msg)
    ELSE _validate_parsed_task(_extract_json(resp.text))

\* parse_natural_language without its except clause
parse_without_except(m, text, resp) ==
    IF ~is_available(m) THEN Returned(_fallback_parse(text))
    ELSE The({ IF IsExc(tried) THEN Escaped(tried) ELSE Returned(tried)
               : tried \in {ParseTry(resp)} })

\* parse_natural_language: the prompt is an f-string over text and the
\* date, which does not raise
parse_natural_language(m, text, resp) ==
    IF ~is_available(m) THEN Returned(_fallback_parse(text))
    ELSE The({ IF IsExc(tried) THEN Returned(_fallback_parse(text))
               ELSE Returned(tried)
               : tried \in {ParseTry(resp)} })

\* list(iter(v)): the elements of a list, the characters of a str, the keys
\* of a dict; nothing else the decoder produces is iterable
PyIter(v) ==
    CASE v.t = "list" -> v
      [] v.t = "str" -> JList([i \in 1..v.len |-> JStr("one character", 1)])
      [] v.t = "dict" -> JList([i \in 1..Len(v.keys) |-> Str(v.keys[i])])
      [] OTHER -> Exc("'" \o PyTypeName(v) \o "' object is not iterable")

\* hash(v) raises on a list and on a dict
Hashable(v) == v.t \notin {"list", "dict"}

\* a == b as a dict looks a key up: numbers and booleans by value, NaN equal
\* to nothing, anything else by structure
PyEq(a, b) ==
    LET num(v) == IF v.t = "bool" THEN (IF v.b THEN 1000 ELSE 0) ELSE v.m IN
    IF a.t \in {"num", "bool"} /\ b.t \in {"num", "bool"}
    THEN num(a) = num(b)
    ELSE a.t # "nan" /\ a = b

UnavailableReasoning == Str("AI unavailable - using default order")

PrioritizeResult(prioritized, reasoning) ==
    JDict(<<"prioritized_tasks", "reasoning">>, <<prioritized, reasoning>>)

\* tid in task_map, task_map being {t["id"]: t for t in tasks}
InTaskMap(tasks, tid) ==
    \E i \in 1..Len(tasks) : PyEq(DictGet(tasks[i], "id", JNull), tid)

\* task_map[tid]: of the tasks with that id the comprehension kept the last
TaskMapGet(tasks, tid) ==
    tasks[CHOOSE i \in 1..Len(tasks) :
            /\ PyEq(DictGet(tasks[i], "id", JNull), tid)
            /\ \A j \in (i + 1)..Len(tasks) :
                  ~PyEq(DictGet(tasks[j], "id", JNull), tid)]

\* a reordering that appends the tasks the order left out
RECURSIVE ReorderAppendingOmitted(_, _, _)
ReorderAppendingOmitted(ids, tasks, acc) ==
    IF ids = <<>>
    THEN JList(acc \o SelectSeq(tasks,
                 LAMBDA t : \A k \in 1..Len(acc) : acc[k] # t))
    ELSE IF ~Hashable(Head(ids))
         THEN Exc("unhashable type: '" \o PyTypeName(Head(ids)) \o "'")
    ELSE ReorderAppendingOmitted(Tail(ids), tasks,
           IF InTaskMap(tasks, Head(ids))
             THEN Append(acc, TaskMapGet(tasks, Head(ids))) ELSE acc)

\* [task_map[tid] for tid in order if tid in task_map], order already
\* iterated into ids; the membership test hashes tid
RECURSIVE Reorder(_, _, _)
Reorder(ids, tasks, acc) ==
    IF ids = <<>> THEN JList(acc)
    ELSE LET tid == Head(ids) IN
         IF ~Hashable(tid) THEN Exc("unhashable type: '" \o PyTypeName(tid) \o "'")
         ELSE Reorder(Tail(ids), tasks,
                      IF InTaskMap(tasks, tid)
                        THEN Append(acc, TaskMapGet(tasks, tid)) ELSE acc)

\* a default order that names no task
NoTaskIds(tasks) == JList(<<>>)

\* [t["id"] for t in tasks]
TaskIds(tasks) == JList([i \in 1..Len(tasks) |-> DictGet(tasks[i], "id", JNull)])

\* the try block of prioritize_tasks: the result, or the exception raised
PrioritizeTry(tasks, resp) ==
    IF resp.kind = "raise" THEN Exc(resp.msg)
    ELSE The({
      IF ~IsDict(result) THEN NoGet(result)
      ELSE The({
        IF IsExc(ids) THEN ids
        ELSE The({
          IF IsExc(prioritized) THEN prioritized
          ELSE PrioritizeResult(prioritized,
                 DictGet(result, "reasoning", Str("Prioritized by AI")))
          : prioritized \in {Reorder(ids.items, tasks, <<>>)} })
        : ids \in {PyIter(DictGet(result, "order", TaskIds(tasks)))} })
      : result \in {_extract_json(resp.text)} })

\* t['id'] or t['title'] of the prompt's task lines raises KeyError
TaskLinesRaise(tasks) ==
    \E i \in 1..Len(tasks) : ~HasKey(tasks[i], "id") \/ ~HasKey(tasks[i], "title")

\* prioritize_tasks whose except clause answers as the unavailable case does
prioritize_hiding_the_error(m, tasks, resp) ==
    IF ~is_available(m) \/ tasks = <<>>
    THEN Returned(PrioritizeResult(JList(tasks), UnavailableReasoning))
    ELSE IF TaskLinesRaise(tasks) THEN Escaped(Exc("KeyError"))
    ELSE The({ IF IsExc(tried)
               THEN Returned(PrioritizeResult(JList(tasks), UnavailableReasoning))
               ELSE Returned(tried)
               : tried \in {PrioritizeTry(tasks, resp)} })

\* prioritize_tasks without the "or not tasks" of its guard
prioritize_without_empty_check(m, tasks, resp) ==
    IF ~is_available(m)
    THEN Returned(PrioritizeResult(JList(tasks), UnavailableReasoning))
    ELSE The({ IF IsExc(tried)
               THEN Returned(PrioritizeResult(JList(tasks),
                                              Str("Error: " \o tried.msg)))
               ELSE Returned(tried)
               : tried \in {PrioritizeTry(tasks, resp)} })

\* prioritize_tasks, tasks being the items of the list passed
prioritize_tasks(m, tasks, resp) ==
    IF ~is_available(m) \/ tasks = <<>>
    THEN Returned(PrioritizeResult(JList(tasks), UnavailableReasoning))
    ELSE IF TaskLinesRaise(tasks) THEN Escaped(Exc("KeyError"))
    ELSE The({ IF IsExc(tried)
               THEN Returned(PrioritizeResult(JList(tasks),
                                              Str("Error: " \o tried.msg)))
               ELSE Returned(tried)
               : tried \in {PrioritizeTry(tasks, resp)} })

\* str.lower() of a run of word characters
PyLower(word) ==
    CASE word = "Work" -> "work"
      [] word = "HEALTH" -> "health"
      [] word = "Other" -> "other"
      [] OTHER -> word

\* categorize_task comparing the trimmed text as it came, not lower-cased
categorize_without_lower(m, title, description, resp) ==
    IF ~is_available(m) THEN Returned(Str("other"))
    ELSE IF resp.kind = "raise" THEN Returned(Str("other"))
    ELSE LET text == strip(resp.text) IN
         IF /\ Len(text) = 1
            /\ text[1].c = "w"
            /\ Str(text[1].s) \in valid_categories
         THEN Returned(Str(text[1].s))
         ELSE Returned(Str("other"))

\* response.text.strip().lower() in valid_categories: a category is one run
\* of word characters, so the text is one exactly when it is one such token
categorize_task(m, title, description, resp) ==
    IF ~is_available(m) THEN Returned(Str("other"))
    ELSE IF resp.kind = "raise" THEN Returned(Str("other"))
    ELSE LET text == strip(resp.text) IN
         IF /\ Len(text) = 1
            /\ text[1].c = "w"
            /\ Str(PyLower(text[1].s)) \in valid_categories
         THEN Returned(Str(PyLower(text[1].s)))
         ELSE Returned(Str("other"))

\* format(rate, ".0%") of a rate given in thousandths: the nearest whole
\* percent, a tie going to the even one
PercentOf(milli) ==
    LET q == milli \div 10
        r == milli % 10
    IN  IF r > 5 \/ (r = 5 /\ q % 2 = 1) THEN q + 1 ELSE q

InsightsResult(summary, tips) ==
    JDict(<<"ai_summary", "ai_tips">>, <<summary, tips>>)

TipsMax == 3

\* tips whose first test reads "<=" for "<"
FallbackTipsAtMostHalf(stats) ==
    (IF ~PyLess(JNum(500), DictGet(stats, "completion_rate", JNum(0)))
       THEN <<Str("Try breaking large tasks into smaller ones")>>
       ELSE <<>>)
    \o (IF PyLess(JNum(3000),
                  DictGet(DictGet(stats, "by_priority", EmptyDict), "urgent", JNum(0)))
          THEN <<Str("You have many urgent tasks - consider reviewing priorities")>>
          ELSE <<>>)
    \o <<Str("Consistent daily progress leads to success")>>

\* the tips of _fallback_insights before the cut, in the order appended
FallbackTips(stats) ==
    (IF PyLess(DictGet(stats, "completion_rate", JNum(0)), JNum(500))
       THEN <<Str("Try breaking large tasks into smaller ones")>>
       ELSE <<>>)
    \o (IF PyLess(JNum(3000),
                  DictGet(DictGet(stats, "by_priority", EmptyDict), "urgent", JNum(0)))
          THEN <<Str("You have many urgent tasks - consider reviewing priorities")>>
          ELSE <<>>)
    \o <<Str("Consistent daily progress leads to success")>>

_fallback_insights(stats) ==
    InsightsResult(
      Str("You have " \o ToString(DictGet(stats, "total", JNum(0)).m \div 1000)
            \o " tasks with a "
            \o ToString(PercentOf(DictGet(stats, "completion_rate", JNum(0)).m))
            \o "% completion rate."),
      PySlice(JList(FallbackTips(stats)), TipsMax))

DefaultTips ==
    JList(<<Str("Stay focused"), Str("Prioritize important tasks"), Str("Take breaks")>>)

\* the subscripts of the prompt's context: stats['total'], stats['completed'],
\* stats['completion_rate'], stats['by_category'], stats['by_priority'] and
\* t['title'] of the first five tasks raise KeyError on a missing key
RecentMax == 5
InsightsContextRaises(tasks, stats) ==
    \/ \E k \in {"total", "completed", "completion_rate", "by_category", "by_priority"} :
          ~HasKey(stats, k)
    \/ \E i \in 1..Min2(Len(tasks), RecentMax) : ~HasKey(tasks[i], "title")

\* the try block of generate_insights: the result, or the exception raised
InsightsTry(resp) ==
    IF resp.kind = "raise" THEN Exc(resp.msg)
    ELSE The({ IF ~IsDict(result) THEN NoGet(result)
               ELSE InsightsResult(
                      DictGet(result, "summary", Str("Keep up the good work!")),
                      DictGet(result, "tips", DefaultTips))
               : result \in {_extract_json(resp.text)} })

\* generate_insights, tasks being the items of the list passed
generate_insights(m, tasks, stats, resp) ==
    IF ~is_available(m) THEN Returned(_fallback_insights(stats))
    ELSE IF InsightsContextRaises(tasks, stats) THEN Escaped(Exc("KeyError"))
    ELSE The({ IF IsExc(tried) THEN Returned(_fallback_insights(stats))
               ELSE Returned(tried)
               : tried \in {InsightsTry(resp)} })

\* operations that go to the backend without asking is_available
CallsBackendUnguarded(m, o, a) ==
    CASE o = "prioritize" -> a.tasks # <<>>
      [] OTHER -> o \in {"parse", "categorize", "insights"}

\* whether an invocation reaches self.model.generate_content: the guard at
\* the head of each operation lets it through, and the prompt is built
CallsBackend(m, o, a) ==
    CASE o = "parse" -> is_available(m)
      [] o = "prioritize" ->
           ~(~is_available(m) \/ a.tasks = <<>>) /\ ~TaskLinesRaise(a.tasks)
      [] o = "categorize" -> is_available(m)
      [] o = "insights" ->
           is_available(m) /\ ~InsightsContextRaises(a.tasks, a.stats)
      [] OTHER -> FALSE

\* the operation o on argument a, the backend doing resp if it is called
Operation(m, o, a, resp) ==
    CASE o = "parse" -> parse_natural_language(m, a.text, resp)
      [] o = "prioritize" -> prioritize_tasks(m, a.tasks, resp)
      [] o = "categorize" -> categorize_task(m, a.title, a.description, resp)
      [] o = "insights" -> generate_insights(m, a.tasks, a.stats, resp)

-----------------------------------------------------------------------------
(* Inputs: what the REST layer passes in *)

MaxId == 3
MaxTasks == 3
MaxOrder == 2
MaxRawLen == 2

\* request texts by length, around the fallback's cut at 100 characters
TextLens == {0, 1, 100, 101, 300}
InputText(n) == JStr("text of " \o ToString(n) \o " characters", n)

\* a task as routers/ai.py renders it for prioritize_tasks
TaskDict(id) ==
    JDict(<<"id", "title", "priority", "category", "due_date">>,
          <<JNum(id * 1000), Str("task " \o ToString(id)), Str("medium"),
            Str("work"), JNull>>)

\* sequences over A of length 0..n
SeqsUpTo(A, n) == UNION {[1..k -> A] : k \in 0..n}

\* the task lists of a query: rows of distinct ids
TaskLists ==
    {[i \in 1..Len(ids) |-> TaskDict(ids[i])] :
        ids \in {q \in SeqsUpTo(1..MaxId, MaxTasks) :
                   \A i, j \in 1..Len(q) : i # j => q[i] # q[j]}}

\* <<total, completed, urgent>> of the stats routers/ai.py computes; the
\* totals divide 1000, so that completed / total is exact in thousandths
StatsChoices ==
    {<<0, 0, 0>>, <<1, 1, 0>>, <<2, 1, 2>>, <<4, 1, 4>>, <<4, 3, 3>>,
     <<5, 5, 0>>, <<8, 1, 3>>, <<8, 5, 8>>, <<10, 3, 5>>, <<10, 4, 0>>,
     <<10, 5, 4>>, <<10, 7, 10>>}

StatsDict(total, completed, urgent) ==
    JDict(<<"total", "completed", "completion_rate", "by_category", "by_priority">>,
          << JNum(total * 1000), JNum(completed * 1000),
             JNum(IF total > 0 THEN (completed * 1000) \div total ELSE 0),
             IF total > 0 THEN JDict(<<"work">>, <<JNum(total * 1000)>>) ELSE EmptyDict,
             JDict((IF urgent > 0 THEN <<"urgent">> ELSE <<>>)
                     \o (IF total > urgent THEN <<"medium">> ELSE <<>>),
                   (IF urgent > 0 THEN <<JNum(urgent * 1000)>> ELSE <<>>)
                     \o (IF total > urgent THEN <<JNum((total - urgent) * 1000)>> ELSE <<>>)) >>)

\* the recent tasks passed with the stats, at most 10 of them
RecentLimit == 10
RecentTasks(total, completed) ==
    [i \in 1..Min2(total, RecentLimit) |->
       JDict(<<"title", "completed">>,
             <<Str("task " \o ToString(i)), JBool(i <= completed)>>)]

\* the arguments of one invocation; an operation reads its own
NoArg ==
    [text |-> Str(""), tasks |-> <<>>, stats |-> EmptyDict,
     title |-> Str(""), description |-> Str("")]

ParseArgs == {[NoArg EXCEPT !.text = InputText(n)] : n \in TextLens}
PrioritizeArgs == {[NoArg EXCEPT !.tasks = ts] : ts \in TaskLists}
CategorizeArgs ==
    {[NoArg EXCEPT !.title = Str("Team Meeting"), !.description = d] :
        d \in {Str(""), Str("weekly sync")}}
InsightsArgs ==
    {[NoArg EXCEPT !.tasks = RecentTasks(c[1], c[2]),
                   !.stats = StatsDict(c[1], c[2], c[3])] : c \in StatsChoices}

-----------------------------------------------------------------------------
(* Inputs: the texts the backend can answer with *)

\* the number literal json.dumps writes for a finite number
NumToken(milli) ==
    CASE milli = 700 -> N("0.7")
      [] milli = 500 -> N("0.5")
      [] milli = 1500 -> N("1.5")
      [] milli = 0 - 2000 -> N("-2")
      [] OTHER -> W(ToString(milli \div 1000))

RECURSIVE Dumps(_)
RECURSIVE DumpsItems(_)
RECURSIVE DumpsMembers(_, _)

\* the elements of a list, ", " between them
DumpsItems(items) ==
    IF items = <<>> THEN <<>>
    ELSE Dumps(Head(items))
           \o (IF Len(items) > 1 THEN <<COMMA, SP>> ELSE <<>>)
           \o DumpsItems(Tail(items))

\* the members of a dict, ": " after each key and ", " between members
DumpsMembers(keys, vals) ==
    IF keys = <<>> THEN <<>>
    ELSE <<S(Head(keys), Len(Head(keys))), COLON, SP>> \o Dumps(Head(vals))
           \o (IF Len(keys) > 1 THEN <<COMMA, SP>> ELSE <<>>)
           \o DumpsMembers(Tail(keys), Tail(vals))

\* a value written as JSON text, the way json.dumps spaces it
Dumps(v) ==
    CASE v.t = "null" -> <<W("null")>>
      [] v.t = "bool" -> <<W(IF v.b THEN "true" ELSE "false")>>
      [] v.t = "nan" -> <<W("NaN")>>
      [] v.t = "inf" -> <<W("Infinity")>>
      [] v.t = "ninf" -> <<N("-Infinity")>>
      [] v.t = "num" -> <<NumToken(v.m)>>
      [] v.t = "str" -> <<S(v.s, v.len)>>
      [] v.t = "list" -> <<LK>> \o DumpsItems(v.items) \o <<RK>>
      [] v.t = "dict" -> <<LB>> \o DumpsMembers(v.keys, v.vals) \o <<RB>>

\* the ways a backend wraps its JSON
Fenced(tag, body) == <<BT, BT, BT>> \o tag \o <<NL>> \o body \o <<NL, BT, BT, BT>>
Wrappings(body) ==
    { body,
      Fenced(<<W("json")>>, body),
      Fenced(<<>>, body),
      <<NL, SP>> \o Fenced(<<W("json")>>, <<SP>> \o body \o <<SP, NL>>) \o <<SP, NL>>,
      <<SP>> \o body \o <<NL>>,
      <<BT, BT, BT>> \o body \o <<BT, BT, BT>> }

\* a dict of the fields chosen: each choice is a value, or Absent
Absent == [t |-> "absent"]
RECURSIVE DictOf(_, _)
DictOf(keys, choices) ==
    IF keys = <<>> THEN EmptyDict
    ELSE The({ IF Head(choices) = Absent THEN rest
               ELSE JDict(<<Head(keys)>> \o rest.keys, <<Head(choices)>> \o rest.vals)
               : rest \in {DictOf(Tail(keys), Tail(choices))} })

\* answers that are no JSON object: nothing, prose, JSON of another type,
\* prose around an object, an object cut short
OtherTexts ==
    { <<>>,
      <<W("Sorry"), SP, W("no")>>,
      <<LK, W("1"), COMMA, SP, W("2"), RK>>,
      <<W("5")>>,
      <<S("done", 4)>>,
      <<W("null")>>,
      <<W("Sure"), COLON, SP, LB, S("title", 5), COLON, SP, S("Call John", 9), RB, SP, W("ok")>>,
      <<LB, S("title", 5), COLON>>,
      Fenced(<<W("json")>>, <<LK, RK>>) }

\* what the backend may put in each field of its answer to a parse prompt
TitleChoices ==
    { Absent, Str("Call John"), JStr("a title of 300 characters", 300), JNull,
      JNum(5000), JList(<<Str("Call"), Str("John")>>), EmptyDict }
PriorityChoices == {Absent, Str("high"), Str("critical"), JNull}
CategoryChoices == {Absent, Str("work"), Str("Work")}
ConfidenceChoices ==
    { Absent, JNum(700), JNum(1500), JNum(0 - 2000), JNum(1000), JNaN, JInf,
      JNegInf, Str("0.9"), Str("abc"), JNull, JList(<<>>), JBool(TRUE) }
DetailChoices ==
    { <<Absent, Absent>>, <<Str("Phone call reminder"), Str("2024-01-02T15:00:00")>> }

ParsePayloads ==
    { DictOf(DraftKeys, <<ti, de[1], pr, ca, de[2], co>>) :
        ti \in TitleChoices, de \in DetailChoices, pr \in PriorityChoices,
        ca \in CategoryChoices, co \in ConfidenceChoices }

ParseSamples ==
    { DictOf(DraftKeys, <<Str("Call John"), Str("Phone call reminder"), Str("high"),
                          Str("personal"), Absent, JNum(700)>>),
      DictOf(DraftKeys, <<EmptyDict, Absent, Absent, Absent, Absent, JNaN>>) }

ParseTexts ==
    {Dumps(d) : d \in ParsePayloads}
      \cup UNION {Wrappings(Dumps(d)) : d \in ParseSamples}
      \cup OtherTexts

\* the ids a returned order may name: those of the tasks, and 0, the id of
\* no task
OrderIds == 0..MaxId
OrderChoices ==
    {JList([i \in 1..Len(q) |-> JNum(q[i] * 1000)]) : q \in SeqsUpTo(OrderIds, MaxOrder)}
      \cup { Absent, JNull, JNum(1000), Str("31"), EmptyDict,
             JList(<<Str("1")>>), JList(<<JBool(TRUE)>>),
             JList(<<JNum(1000), JList(<<JNum(2000)>>)>>) }
ReasoningChoices == {Absent, Str("Due dates first")}

PrioritizeTexts ==
    UNION { {Dumps(d), Fenced(<<W("json")>>, Dumps(d))} :
              d \in {DictOf(<<"order", "reasoning">>, <<o, r>>) :
                       o \in OrderChoices, r \in ReasoningChoices} }
      \cup OtherTexts

CategorizeTexts ==
    { <<W("work")>>, <<SP, W("Work"), NL>>, <<W("HEALTH")>>, <<W("urgent")>>,
      <<W("personal")>>, <<W("finance")>>, <<NL, W("learning")>>,
      <<W("errands"), SP>>, <<W("Other")>>,
      <<W("work"), P(".")>>, <<W("work"), SP, W("personal")>>,
      <<S("finance", 7)>> }
      \cup OtherTexts

SummaryChoices == {Absent, Str("Good progress this week.")}
TipsChoices ==
    { Absent, JNull, Str("Rest"),
      JList(<<Str("Plan")>>),
      JList(<<Str("Plan"), Str("Focus"), Str("Rest")>>),
      JList(<<Str("Plan"), Str("Focus"), Str("Rest"), Str("Review")>>) }

InsightsTexts ==
    UNION { {Dumps(d), Fenced(<<W("json")>>, Dumps(d))} :
              d \in {DictOf(<<"summary", "tips">>, <<su, ti>>) :
                       su \in SummaryChoices, ti \in TipsChoices} }
      \cup OtherTexts

ErrorMessages == {"429 quota exceeded", "deadline exceeded"}

\* the backend's possible behaviours when operation o calls it
Responses(o) ==
    {Raises(msg) : msg \in ErrorMessages}
      \cup {Returns(toks) : toks \in
              CASE o = "parse" -> ParseTexts
                [] o = "prioritize" -> PrioritizeTexts
                [] o = "categorize" -> CategorizeTexts
                [] o = "insights" -> InsightsTexts
                [] OTHER -> {}}

-----------------------------------------------------------------------------
(* The service as a state machine.  generate_content is a synchronous call *)
(* inside an operation, so one operation is in flight at a time: it stops  *)
(* at the call, and the backend's answer carries it to its return.         *)

VARIABLES
    env,        \* the configuration read at construction
    model,      \* AIService.model: "None" or the model handle
    pc,         \* "idle", or "calling" inside generate_content
    op,         \* the operation in flight, or the last one
    arg,        \* its arguments
    response,   \* what the backend did on the call of this invocation
    calls,      \* generate_content calls made by this invocation
    ret,        \* the outcome of the last operation
    xin,        \* _extract_json on its own: the input
    xout        \* _extract_json on its own: the result

vars == <<env, model, pc, op, arg, response, calls, ret, xin, xout>>

Pending == [status |-> "pending", v |-> JNull]
NoInput == [text |-> <<>>, src |-> Absent]

\* a service that drops its handle when categorize_task falls back
ModelDroppedOnFallback(m, o, outcome) ==
    IF o = "categorize" /\ outcome = Returned(Str("other")) THEN "None" ELSE m

\* self.model once an operation has run: no method but _initialize assigns it
ModelAfter(m, o, outcome) == m

Init ==
    /\ env \in [gemini_api_key : {"", "secret"}, init_raises : BOOLEAN]
    /\ model = _initialize(env.gemini_api_key, env.init_raises)
    /\ pc = "idle"
    /\ op = "none"
    /\ arg = NoArg
    /\ response = NoCall
    /\ calls = 0
    /\ ret = Pending
    /\ xin = NoInput
    /\ xout = Pending

\* an operation is called: it returns at once, or stops in generate_content
Invoke(o, a) ==
    /\ pc = "idle"
    /\ op' = o
    /\ arg' = a
    /\ response' = NoCall
    /\ IF CallsBackend(model, o, a)
       THEN /\ pc' = "calling"
            /\ calls' = 1
            /\ ret' = Pending
            /\ model' = model
       ELSE /\ pc' = "idle"
            /\ calls' = 0
            /\ ret' = Operation(model, o, a, NoCall)
            /\ model' = ModelAfter(model, o, ret')
    /\ UNCHANGED <<env, xin, xout>>

ParseNaturalLanguage == \E a \in ParseArgs : Invoke("parse", a)
PrioritizeTasks == \E a \in PrioritizeArgs : Invoke("prioritize", a)
CategorizeTask == \E a \in CategorizeArgs : Invoke("categorize", a)
GenerateInsights == \E a \in InsightsArgs : Invoke("insights", a)

\* GET /ai/status
IsAvailable ==
    /\ pc = "idle"
    /\ op' = "is_available"
    /\ arg' = NoArg
    /\ response' = NoCall
    /\ calls' = 0
    /\ ret' = Returned(JBool(is_available(model)))
    /\ UNCHANGED <<env, model, pc, xin, xout>>

\* generate_content returns or raises, and the operation runs to its return
GenerateContent ==
    /\ pc = "calling"
    /\ \E resp \in Responses(op) :
         /\ response' = resp
         /\ ret' = Operation(model, op, arg, resp)
    /\ pc' = "idle"
    /\ model' = ModelAfter(model, op, ret')
    /\ UNCHANGED <<env, op, arg, calls, xin, xout>>

Next ==
    \/ ParseNaturalLanguage
    \/ PrioritizeTasks
    \/ CategorizeTask
    \/ GenerateInsights
    \/ IsAvailable
    \/ GenerateContent

Spec == Init /\ [][Next]_vars

-----------------------------------------------------------------------------
(* _extract_json on its own: every short text, those texts behind and      *)
(* between fences, and JSON objects written out and wrapped                *)

RawAlphabet ==
    { BT, NL, SP, LB, RB, LK, RK, COMMA, COLON,
      W("json"), W("1"), N("0.7"), S("a", 1) }

\* a run of word characters is one token, so no two tokens made of word
\* characters or digits stand side by side
Tokenized(toks) ==
    \A i \in 1..(Len(toks) - 1) :
        ~(toks[i].c \in {"w", "n"} /\ toks[i + 1].c \in {"w", "n"})

RawTexts == {r \in SeqsUpTo(RawAlphabet, MaxRawLen) : Tokenized(r)}

ExtractObjects ==
    { EmptyDict,
      JDict(<<"title">>, <<Str("Call John")>>),
      JDict(<<"a">>, <<JDict(<<"b">>, <<JNum(1000)>>)>>),
      JDict(<<"order", "reasoning">>,
            <<JList(<<JNum(3000), JNum(1000)>>), Str("Due dates first")>>),
      JDict(<<"tips", "n">>,
            <<JList(<<JDict(<<"x">>, <<JNull>>), JNum(700)>>),
              JDict(<<"m">>, <<EmptyDict>>)>>) }
      \cup ParseSamples

ExtractInputs ==
    {[text |-> r, src |-> Absent] : r \in RawTexts}
      \cup {[text |-> <<BT, BT, BT>> \o r, src |-> Absent] : r \in RawTexts}
      \cup {[text |-> <<BT, BT, BT>> \o r \o <<BT, BT, BT>>, src |-> Absent] :
              r \in RawTexts}
      \cup UNION {{[text |-> w, src |-> d] : w \in Wrappings(Dumps(d))} :
                    d \in ExtractObjects}

InitExtract ==
    /\ env = [gemini_api_key |-> "", init_raises |-> FALSE]
    /\ model = _initialize(env.gemini_api_key, env.init_raises)
    /\ pc = "idle"
    /\ op = "none"
    /\ arg = NoArg
    /\ response = NoCall
    /\ calls = 0
    /\ ret = Pending
    /\ xin \in ExtractInputs
    /\ xout = Pending

ExtractJson ==
    /\ xout = Pending
    /\ xout' = Returned(_extract_json(xin.text))
    /\ UNCHANGED <<env, model, pc, op, arg, response, calls, ret, xin>>

NextExtract == ExtractJson

SpecExtract == InitExtract /\ [][NextExtract]_vars

-----------------------------------------------------------------------------
(* _fallback_insights on its own: a service without a key, where           *)
(* generate_insights hands every stats mapping straight to the fallback,   *)
(* also mappings that lack some of their keys                              *)

RateChoices ==
    {Absent, JNum(0), JNum(300), JNum(499), JNum(500), JNum(501), JNum(1000)}
UrgentChoices ==
    { Absent, EmptyDict,
      JDict(<<"medium">>, <<JNum(7000)>>),
      JDict(<<"urgent">>, <<JNum(0)>>),
      JDict(<<"urgent">>, <<JNum(3000)>>),
      JDict(<<"urgent">>, <<JNum(4000)>>),
      JDict(<<"urgent", "medium">>, <<JNum(5000), JNum(2000)>>) }
TotalChoices == {Absent, JNum(0), JNum(10000)}

FallbackArgs ==
    {[NoArg EXCEPT !.stats =
        DictOf(<<"total", "completion_rate", "by_priority">>, <<n, r, u>>)] :
       n \in TotalChoices, r \in RateChoices, u \in UrgentChoices}

InitFallback ==
    /\ env = [gemini_api_key |-> "", init_raises |-> FALSE]
    /\ model = _initialize(env.gemini_api_key, env.init_raises)
    /\ pc = "idle"
    /\ op = "none"
    /\ arg = NoArg
    /\ response = NoCall
    /\ calls = 0
    /\ ret = Pending
    /\ xin = NoInput
    /\ xout = Pending

FallbackInsights == \E a \in FallbackArgs : Invoke("insights", a)

NextFallback == FallbackInsights

SpecFallback == InitFallback /\ [][NextFallback]_vars

-----------------------------------------------------------------------------
(* Properties *)

\* operation o has returned to its caller
Done(o) == pc = "idle" /\ op = o /\ ret.status # "pending"

FourOperations == {"parse", "prioritize", "categorize", "insights"}

\* the constructor's verdict on the configuration
Configured == env.gemini_api_key # "" /\ ~env.init_raises

\* C1: whatever the backend answered, and in both availability states, the
\* draft parse_natural_language returns has a priority among the four, a
\* category among the seven, a confidence within [0, 1] and a title that is
\* a string of at most 255 characters.
C1_DraftWithinDomains ==
    Done("parse") =>
        /\ ret.status = "returned"
        /\ DictGet(ret.v, "priority", JNull) \in
             {Str("low"), Str("medium"), Str("high"), Str("urgent")}
        /\ DictGet(ret.v, "category", JNull) \in
             {Str("work"), Str("personal"), Str("health"), Str("finance"),
              Str("learning"), Str("errands"), Str("other")}
        /\ DictGet(ret.v, "confidence", JNull).t = "num"
        /\ DictGet(ret.v, "confidence", JNull).m \in 0..1000
        /\ DictGet(ret.v, "title", JNull).t = "str"
        /\ DictGet(ret.v, "title", JNull).len <= 255

\* C2: each of the four operations returns a result to its caller, whatever
\* the input and whether the backend raises or answers any text: no
\* exception leaves the operation.
C2_NoExceptionEscapes ==
    (pc = "idle" /\ op \in FourOperations) =>
        ret.status = "returned" /\ ~IsExc(ret.v)

\* the answer {"order": null} made the try block of prioritize_tasks raise,
\* and the caller still got a result: the input order with the error
C2_Witness ==
    /\ Done("prioritize")
    /\ response.kind = "text"
    /\ response.text = Dumps(JDict(<<"order">>, <<JNull>>))
    /\ arg.tasks # <<>>
    /\ ret = Returned(PrioritizeResult(JList(arg.tasks),
                 Str("Error: 'NoneType' object is not iterable")))

\* the draft the fallback gives for a request text
FallbackDraft(text) ==
    JDict(<<"title", "description", "priority", "category", "due_date", "confidence">>,
          << JStr(text.s, IF text.len < 100 THEN text.len ELSE 100), JNull,
             Str("medium"), Str("other"), JNull, JNum(500) >>)

\* a confidence float() does not convert: null, a list, an object, or a
\* string that is no numeral
NonNumeric(v) ==
    \/ v.t \in {"null", "list", "dict"}
    \/ v.t = "str" /\ v.s \notin {"0.9", "7", "nan"}

\* the answer decodes to an object that carries a non-numeric confidence
CarriesNonNumericConfidence ==
    /\ response.kind = "text"
    /\ json_loads(response.text).ok
    /\ IsDict(json_loads(response.text).v)
    /\ HasKey(json_loads(response.text).v, "confidence")
    /\ NonNumeric(DictGet(json_loads(response.text).v, "confidence", JNull))

\* the answer decodes to JSON that is no object, or to an object whose title
\* has no slices: validation raises on both
ValidationRaisesOnShape ==
    /\ response.kind = "text"
    /\ json_loads(response.text).ok
    /\ \/ ~IsDict(json_loads(response.text).v)
       \/ /\ HasKey(json_loads(response.text).v, "title")
          /\ DictGet(json_loads(response.text).v, "title", JNull).t
               \notin {"str", "list"}

\* C3: parse_natural_language returns exactly the fallback draft (the first
\* 100 characters of the text as title, no description, "medium", "other",
\* no due date, 0.5) when the backend is unavailable, when the call raises,
\* and when validation raises, as it does on a non-numeric confidence.
C3_FallbackDraftExactly ==
    ( /\ Done("parse")
      /\ \/ ~is_available(model)
         \/ response.kind = "raise"
         \/ CarriesNonNumericConfidence
         \/ ValidationRaisesOnShape )
    => ret = Returned(FallbackDraft(arg.text))

\* an available backend answered a long request with "confidence": "abc"
C3_Witness ==
    /\ Done("parse")
    /\ is_available(model)
    /\ arg.text.len = 300
    /\ CarriesNonNumericConfidence
    /\ DictGet(json_loads(response.text).v, "confidence", JNull) = Str("abc")
    /\ ret = Returned(FallbackDraft(arg.text))

\* what operation o on argument a returns once the backend call has raised
\* an exception whose message is msg
FallbackAfterFailure(o, a, msg) ==
    CASE o = "parse" -> FallbackDraft(a.text)
      [] o = "prioritize" ->
           JDict(<<"prioritized_tasks", "reasoning">>,
                 <<JList(a.tasks), Str("Error: " \o msg)>>)
      [] o = "categorize" -> Str("other")
      [] o = "insights" -> _fallback_insights(a.stats)

\* C4: within one invocation generate_content is called at most once: not
\* at all when the backend is unavailable, and a call that raised is
\* followed by the operation's fallback result, never by another call.
C4_AtMostOneCall ==
    /\ [](/\ calls \in {0, 1}
          /\ ~is_available(model) => calls = 0
          /\ pc = "calling" => calls = 1 /\ response = NoCall
          /\ (pc = "idle" /\ response # NoCall) => calls = 1)
    /\ [][(pc = "calling" /\ response'.kind = "raise") =>
            /\ pc' = "idle"
            /\ calls' = calls
            /\ ret' = Returned(FallbackAfterFailure(op, arg, response'.msg))]_vars

\* the one call of a generate_insights invocation raised, and the fallback
\* insights went back
C4_Witness ==
    /\ Done("insights")
    /\ response.kind = "raise"
    /\ calls = 1
    /\ ret = Returned(_fallback_insights(arg.stats))

\* C5: availability is fixed at construction, true exactly when a key is
\* configured and initialization did not raise; no operation, failed or
\* not, changes it, and is_available() reports it.
C5_AvailabilityFixed ==
    /\ is_available(model) = Configured
    /\ Done("is_available") => ret = Returned(JBool(Configured))

\* a categorize_task call has just failed on a backend that was, and is,
\* available
C5_Witness ==
    /\ Done("categorize")
    /\ response.kind = "raise"
    /\ ret = Returned(Str("other"))
    /\ Configured
    /\ is_available(model)

\* C6: _extract_json returns a mapping for every input and never raises;
\* the result is never a list, a string or a number.
C6_AlwaysAMapping ==
    xout # Pending => xout.status = "returned" /\ IsDict(xout.v)

\* C7: for a valid JSON object, bare or between a leading fence (with or
\* without a language tag) and a trailing fence, with whitespace around,
\* _extract_json returns exactly the object the text was written from.
C7_ExactDecodedObject ==
    (xout # Pending /\ xin.src # Absent) => xout = Returned(xin.src)

\* a nested object, behind a tagged fence with whitespace around, came back
\* whole
C7_Witness ==
    /\ xout # Pending
    /\ xin.src = JDict(<<"a">>, <<JDict(<<"b">>, <<JNum(1000)>>)>>)
    /\ Len(xin.text) > 3
    /\ xin.text[1] = NL
    /\ xin.text[3] = BT
    /\ xout = Returned(xin.src)

\* the order list inside a decoded backend answer d: d["order"] when d is an
\* object whose "order" is a list of ids (strings, numbers, booleans,
\* null), Absent otherwise
OrderOf(d) ==
    IF IsDict(d) /\ HasKey(d, "order")
    THEN The({ IF o.t = "list" /\ \A i \in 1..Len(o.items) : Hashable(o.items[i])
               THEN o ELSE Absent
               : o \in {DictGet(d, "order", Absent)} })
    ELSE Absent

\* the order list the backend returned in the current invocation
ReturnedOrder ==
    IF response.kind = "text" THEN OrderOf(_extract_json(response.text))
    ELSE Absent

IdOf(task) == DictGet(task, "id", Absent)
KnownId(tasks, tid) == \E i \in 1..Len(tasks) : PyEq(IdOf(tasks[i]), tid)

\* the walk of an order over the tasks, written without the lookup table:
\* the known ids of the order, each replaced by the task that carries it
WalkOf(order, tasks) ==
    The({ [k \in 1..Len(known) |->
             CHOOSE t \in {tasks[i] : i \in 1..Len(tasks)} :
               PyEq(IdOf(t), known[k])]
          : known \in {SelectSeq(order, LAMBDA x : KnownId(tasks, x))} })

PrioritizedOf(r) == DictGet(r.v, "prioritized_tasks", Absent)

\* C8: with the backend available, a non-empty task list and an order list
\* in the answer, prioritize_tasks returns the walk of that order: the task
\* of each id the input knows, in the order's sequence; unknown ids are
\* skipped and tasks the order omits are absent (ids 1,2,3 with order 3,1
\* give task 3 then task 1).
C8_WalksReturnedOrder ==
    (/\ Done("prioritize")
     /\ is_available(model)
     /\ arg.tasks # <<>>
     /\ ReturnedOrder # Absent) =>
        /\ ret.status = "returned"
        /\ PrioritizedOf(ret) = JList(WalkOf(ReturnedOrder.items, arg.tasks))
        /\ \A i \in 1..Len(arg.tasks) :
             (\A k \in 1..Len(ReturnedOrder.items) :
                 ~PyEq(IdOf(arg.tasks[i]), ReturnedOrder.items[k]))
             => \A k \in 1..Len(PrioritizedOf(ret).items) :
                  PrioritizedOf(ret).items[k] # arg.tasks[i]
        /\ (/\ arg.tasks = <<TaskDict(1), TaskDict(2), TaskDict(3)>>
            /\ ReturnedOrder = JList(<<JNum(3000), JNum(1000)>>))
           => PrioritizedOf(ret) = JList(<<TaskDict(3), TaskDict(1)>>)

\* tasks 1, 2, 3 went in, the answer ordered 3 then 1, and task 3 then
\* task 1 came back
C8_Witness ==
    /\ Done("prioritize")
    /\ is_available(model)
    /\ arg.tasks = <<TaskDict(1), TaskDict(2), TaskDict(3)>>
    /\ ReturnedOrder = JList(<<JNum(3000), JNum(1000)>>)
    /\ PrioritizedOf(ret) = JList(<<TaskDict(3), TaskDict(1)>>)

\* how often x occurs in the sequence q
Occurrences(q, x) == Cardinality({i \in 1..Len(q) : q[i] = x})

\* C9: whatever order the backend returns, repeated ids included, the list
\* prioritize_tasks returns is a reordered subset of its input: every
\* element is an input task, none occurs more often than in the input, and
\* the result is no longer than the input.
C9_ReorderedSubset ==
    (Done("prioritize") /\ ret.status = "returned") =>
        The({ /\ Len(r) <= Len(arg.tasks)
              /\ \A k \in 1..Len(r) :
                   /\ Occurrences(arg.tasks, r[k]) > 0
                   /\ Occurrences(r, r[k]) <= Occurrences(arg.tasks, r[k])
              : r \in {PrioritizedOf(ret).items} })

\* C10: prioritize_tasks on an empty task list returns the empty list with
\* the reasoning "AI unavailable - using default order", whether or not the
\* backend is available, and never calls the backend.
C10_EmptyListNoCall ==
    (op = "prioritize" /\ arg.tasks = <<>>) =>
        /\ calls = 0
        /\ response = NoCall
        /\ pc = "idle"
        /\ ret.status # "pending" =>
             ret = Returned(JDict(<<"prioritized_tasks", "reasoning">>,
                     <<JList(<<>>),
                       Str("AI unavailable - using default order")>>))

\* an empty list was prioritized on an available backend
C10_Witness ==
    /\ Done("prioritize")
    /\ arg.tasks = <<>>
    /\ is_available(model)
    /\ calls = 0
    /\ PrioritizedOf(ret) = JList(<<>>)

\* the first item of a list that has no hash
FirstUnhashable(items) ==
    items[CHOOSE i \in 1..Len(items) :
            /\ ~Hashable(items[i])
            /\ \A j \in 1..(i - 1) : Hashable(items[j])]

\* the message of the exception the try block of prioritize_tasks raises in
\* the current invocation, as a one-element sequence; empty when the backend
\* was not called or the block raises nothing: the backend's own error, an
\* answer that decodes to JSON that is no object, an order that cannot be
\* iterated, or an order item that cannot be looked up
PrioritizeFailure ==
    IF response.kind = "raise" THEN <<response.msg>>
    ELSE IF response.kind # "text" THEN <<>>
    ELSE The({
      IF ~IsDict(d)
      THEN <<"'" \o PyTypeName(d) \o "' object has no attribute 'get'">>
      ELSE IF ~HasKey(d, "order") THEN <<>>
      ELSE The({
        CASE o.t \in {"null", "bool", "num", "nan", "inf", "ninf"} ->
               <<"'" \o PyTypeName(o) \o "' object is not iterable">>
          [] o.t = "list" /\ (\E i \in 1..Len(o.items) : ~Hashable(o.items[i])) ->
               <<"unhashable type: '" \o FirstUnhashable(o.items).t \o "'">>
          [] OTHER -> <<>>
        : o \in {DictGet(d, "order", Absent)} })
      : d \in {_extract_json(response.text)} })

\* C11: with the backend available, when the call, the extraction or the
\* reordering of prioritize_tasks raises, the operation returns the input
\* tasks unchanged and in their order, with the reasoning "Error: " followed
\* by the caught message; that text differs from the fixed "AI unavailable -
\* using default order" the unavailable backend gets.
C11_ErrorFallbackKeepsInput ==
    /\ (/\ Done("prioritize")
        /\ is_available(model)
        /\ arg.tasks # <<>>
        /\ PrioritizeFailure # <<>>) =>
           /\ ret = Returned(JDict(<<"prioritized_tasks", "reasoning">>,
                       <<JList(arg.tasks),
                         Str("Error: " \o PrioritizeFailure[1])>>))
           /\ DictGet(ret.v, "reasoning", Absent)
                # Str("AI unavailable - using default order")
    /\ (Done("prioritize") /\ ~is_available(model)) =>
           ret = Returned(JDict(<<"prioritized_tasks", "reasoning">>,
                       <<JList(arg.tasks),
                         Str("AI unavailable - using default order")>>))

\* the backend raised on a two-task list, and the two tasks came back in
\* their order with the backend's message
C11_Witness ==
    /\ Done("prioritize")
    /\ is_available(model)
    /\ Len(arg.tasks) = 2
    /\ response = Raises("429 quota exceeded")
    /\ ret = Returned(JDict(<<"prioritized_tasks", "reasoning">>,
                <<JList(arg.tasks), Str("Error: 429 quota exceeded")>>))

\* the three tips of the fallback insights
BreakingTip == Str("Try breaking large tasks into smaller ones")
UrgentTip == Str("You have many urgent tasks - consider reviewing priorities")
ConstantTip == Str("Consistent daily progress leads to success")

\* the completion rate and the urgent count of the stats passed, in
\* thousandths, 0 when the mapping lacks them
RateOf(stats) == DictGet(stats, "completion_rate", JNum(0)).m
UrgentOf(stats) ==
    DictGet(DictGet(stats, "by_priority", EmptyDict), "urgent", JNum(0)).m

\* whether tip occurs among the tips
HasTip(tips, tip) == \E k \in 1..Len(tips) : tips[k] = tip

\* C12: the tips of the fallback insights are, in this order, the
\* breaking-tasks tip iff completion_rate < 0.5, the urgent-review tip iff
\* the urgent count > 3, and always "Consistent daily progress leads to
\* success"; there are between 1 and 3 of them, and a rate of 0.3 with 5
\* urgent tasks gives exactly the three.
C12_FallbackTipsInOrder ==
    (Done("insights") /\ (~is_available(model) \/ response.kind = "raise")) =>
        The({
          /\ Len(tips) \in 1..3
          /\ tips[Len(tips)] = ConstantTip
          /\ HasTip(tips, BreakingTip) <=> RateOf(arg.stats) < 500
          /\ HasTip(tips, UrgentTip) <=> UrgentOf(arg.stats) > 3000
          /\ HasTip(tips, BreakingTip) => tips[1] = BreakingTip
          /\ HasTip(tips, UrgentTip) => tips[Len(tips) - 1] = UrgentTip
          /\ \A k \in 1..Len(tips) :
               /\ tips[k] \in {BreakingTip, UrgentTip, ConstantTip}
               /\ \A j \in 1..Len(tips) : tips[j] = tips[k] => j = k
          /\ (RateOf(arg.stats) = 300 /\ UrgentOf(arg.stats) = 5000)
               => tips = <<BreakingTip, UrgentTip, ConstantTip>>
          : tips \in {DictGet(ret.v, "ai_tips", Absent).items} })

\* stats with a completion rate of 0.3 and 5 urgent tasks got the three tips
C12_Witness ==
    /\ Done("insights")
    /\ ~is_available(model)
    /\ RateOf(arg.stats) = 300
    /\ UrgentOf(arg.stats) = 5000
    /\ DictGet(ret.v, "ai_tips", Absent)
         = JList(<<BreakingTip, UrgentTip, ConstantTip>>)

\* the object the backend's answer decodes to in the current invocation,
\* Absent when the backend did not answer or the answer yields no object
AnsweredObject ==
    IF response.kind # "text" THEN Absent
    ELSE The({ IF IsDict(d) THEN d ELSE Absent
               : d \in {_extract_json(response.text)} })

\* C13: whatever the backend answered, and in both availability states,
\* generate_insights returns a summary with a list of at most 3 tips; an
\* answer without a summary gives "Keep up the good work!", an answer
\* without tips gives "Stay focused", "Prioritize important tasks",
\* "Take breaks".
C13_SummaryAndAtMostThreeTips ==
    Done("insights") =>
        /\ ret.status = "returned"
        /\ DictGet(ret.v, "ai_summary", Absent).t = "str"
        /\ DictGet(ret.v, "ai_tips", Absent).t = "list"
        /\ Len(DictGet(ret.v, "ai_tips", Absent).items) <= 3
        /\ (AnsweredObject # Absent /\ ~HasKey(AnsweredObject, "summary"))
             => DictGet(ret.v, "ai_summary", Absent) = Str("Keep up the good work!")
        /\ (AnsweredObject # Absent /\ ~HasKey(AnsweredObject, "tips"))
             => DictGet(ret.v, "ai_tips", Absent)
                  = JList(<<Str("Stay focused"), Str("Prioritize important tasks"),
                            Str("Take breaks")>>)

SevenCategories ==
    {"work", "personal", "health", "finance", "learning", "errands", "other"}

\* the trimmed, lower-cased text of the backend's answer when that is one
\* word, "" otherwise
NormalizedAnswer ==
    IF response.kind # "text" THEN ""
    ELSE The({ IF Len(text) = 1 /\ text[1].c = "w" THEN PyLower(text[1].s) ELSE ""
               : text \in {strip(response.text)} })

\* C14: categorize_task always returns one of the seven categories: "other"
\* when the backend is unavailable, when the call raises and when the
\* trimmed, lower-cased answer is none of the seven, that answer otherwise;
\* a returned category sent through the same normalization comes back
\* unchanged.
C14_AlwaysOneOfSeven ==
    Done("categorize") =>
        /\ ret.status = "returned"
        /\ ret.v \in {Str(c) : c \in SevenCategories}
        /\ (~is_available(model) \/ response.kind = "raise")
             => ret.v = Str("other")
        /\ (is_available(model) /\ response.kind = "text") =>
             ret.v = IF NormalizedAnswer \in SevenCategories
                     THEN Str(NormalizedAnswer) ELSE Str("other")
        /\ response.text = <<SP, W("Work"), NL>> => ret.v = Str("work")
        /\ response.text = <<W("HEALTH")>> => ret.v = Str("health")
        /\ response.text = <<W("urgent")>> => ret.v = Str("other")
        /\ response.text = <<W("work"), P(".")>> => ret.v = Str("other")
        /\ response.text = <<S("finance", 7)>> => ret.v = Str("other")
        /\ categorize_task("GenerativeModel", arg.title, arg.description,
                           Returns(<<W(ret.v.s)>>)) = ret

\* "Team Meeting" on an available backend that answered " Work" and a
\* newline was filed under "work"
C14_Witness ==
    /\ Done("categorize")
    /\ is_available(model)
    /\ arg.title = Str("Team Meeting")
    /\ response = Returns(<<SP, W("Work"), NL>>)
    /\ ret = Returned(Str("work"))

\* some stretch of the text decodes to a JSON object
ContainsObject(toks) ==
    \E i \in 1..Len(toks) : \E j \in i..Len(toks) :
        The({ part.ok /\ IsDict(part.v)
              : part \in {json_loads(SubSeq(toks, i, j))} })

\* the draft made of the defaults of every field
DefaultsDraft ==
    JDict(<<"title", "description", "priority", "category", "due_date", "confidence">>,
          <<Str("New Task"), JNull, Str("medium"), Str("other"), JNull, JNum(500)>>)

\* C15: when the available backend answers with a text that holds no
\* parseable JSON object, parse_natural_language does not fall back: it
\* returns the all-defaults draft, titled "New Task" and not with the
\* request text.
C15_NoObjectGivesDefaults ==
    (/\ Done("parse")
     /\ is_available(model)
     /\ response.kind = "text"
     /\ ~ContainsObject(response.text)) => ret = Returned(DefaultsDraft)

\* C16: with the backend available and a non-empty list of tasks of
\* distinct ids, an answer that yields a mapping without "order" (the empty
\* mapping of a failed extraction included) makes prioritize_tasks return
\* every input task once, in the input order, with the answer's reasoning
\* or "Prioritized by AI" when it has none.
C16_NoOrderKeepsEveryTask ==
    (/\ Done("prioritize")
     /\ is_available(model)
     /\ arg.tasks # <<>>
     /\ AnsweredObject # Absent
     /\ ~HasKey(AnsweredObject, "order")) =>
        ret = Returned(JDict(<<"prioritized_tasks", "reasoning">>,
                <<JList(arg.tasks),
                  DictGet(AnsweredObject, "reasoning", Str("Prioritized by AI"))>>))

\* three tasks and an answer in prose: extraction gave the empty mapping and
\* the three tasks came back in their order
C16_Witness ==
    /\ Done("prioritize")
    /\ is_available(model)
    /\ Len(arg.tasks) = 3
    /\ response = Returns(<<W("Sorry"), SP, W("no")>>)
    /\ AnsweredObject = EmptyDict
    /\ ret = Returned(JDict(<<"prioritized_tasks", "reasoning">>,
                <<JList(arg.tasks), Str("Prioritized by AI")>>))

=============================================================================
